---- MODULE Spec2Model ----
(***************************************************************************)
(* Detection pipeline of the Stealth Launch Radar MCP server               *)
(* (src/mcp_server_stdio.py, class MCPStdioServer).                        *)
(*                                                                         *)
(* One behaviour is one tool call on a freshly constructed server: either  *)
(* run_pipeline (search -> URL extraction -> enrichment loop -> batch      *)
(* scoring -> interpretation loop with store and alert -> report) or a     *)
(* direct call of batch_score_signals.  Texts are modelled by the parts    *)
(* the code reads: the URLs a text contains, the substring captured after  *)
(* "Launch Likelihood: ", whether a text is empty.  Likelihoods and scores *)
(* are fixed-point numbers in units of 0.0001.                             *)
(***************************************************************************)
EXTENDS Integers, Sequences, FiniteSets, TLC

VARIABLES
    pc,                       \* position of the tool call in its handler
    tool,                     \* the tool that was called
    args,                     \* arguments of run_pipeline
    env,                      \* which credentials the process environment has
    faults,                   \* collaborators that may misbehave in this behaviour
    search_response,          \* what the search API answered (in flight)
    urls,                     \* candidate URLs (local `urls`)
    idx,                      \* enrichment loop: candidates handled so far
    enriched_signals,         \* local `enriched_signals`
    llm_response,             \* what the scoring model answered (in flight)
    scoring_result,           \* local `scoring_result`
    si,                       \* interpretation loop: blocks handled so far
    high_confidence_signals,  \* local `high_confidence_signals`
    db,                       \* rows of table `signals` (data/signals.db)
    calls,                    \* collaborator calls made, in order
    result,                   \* blocks returned to the caller
    runs,                     \* concurrent runs: each run's interpretation loop
    initial_rows,             \* rows of the table before the concurrent runs
    text_block,               \* a scoring block to decode (local `scoring_text`)
    decoded,                  \* score, confidence and reasoning decoded from it
    parse_input,              \* the field parser's answer and the target fields
    recovered,                \* the fields the pipeline recovers, stores and alerts
    loop,                     \* where the stdio server loop is
    stdin,                    \* the lines of the standard input
    lines_read,               \* how many of them the loop has read
    stdout,                   \* response lines written by the server loop
    executed,                 \* tool handlers executed, in order
    http                      \* answer of the HTTP endpoint called

store_vars == << runs, initial_rows >>
decode_vars == << text_block, decoded >>
fields_vars == << parse_input, recovered >>
server_vars == << loop, stdin, lines_read, stdout, executed, http >>

\* State of the other scenarios, untouched by a single tool call
aux == << store_vars, decode_vars, fields_vars, server_vars >>

vars == << pc, tool, args, env, faults, search_response, urls, idx, enriched_signals, llm_response,
           scoring_result, si, high_confidence_signals, db, calls, result, aux >>

----------------------------------------------------------------------------
(* Bounds of the exploration *)

MaxNumResults == 2
MaxDirectSignals == 22
MaxStoreCalls == 4
MaxLines == 3
MaxRequests == 2

(* Program constants *)

UrlCap == 10
MaxBatch == 20
AlertThreshold == 7500
SummaryThreshold == 7000

----------------------------------------------------------------------------
(* Values *)

None == << >>
Some(x) == << x >>
IsNone(o) == o = << >>
Val(o) == o[1]

Min(a, b) == IF a <= b THEN a ELSE b
Max(a, b) == IF a >= b THEN a ELSE b

RECURSIVE SelectSeqIdx(_, _, _)
SelectSeqIdx(s, T(_), i) ==
    IF i > Len(s) THEN << >>
    ELSE (IF T(s[i]) THEN << s[i] >> ELSE << >>) \o SelectSeqIdx(s, T, i + 1)

\* s[:n] of Python: None keeps all, a negative n drops the last -n elements
PySlice(s, n) ==
    IF IsNone(n) THEN s
    ELSE IF Val(n) >= 0 THEN SubSeq(s, 1, Min(Val(n), Len(s)))
    ELSE SubSeq(s, 1, Max(Len(s) + Val(n), 0))

\* URLs: a1, a2 have an allow-listed host; x1 has none; p1 has a host that
\* is not allow-listed and an allow-listed domain name in its path
Urls == { "a1", "a2", "x1", "p1" }
UnknownUrl == "Unknown URL"

\* Text captured by "Launch Likelihood: ([\d.]+)":
\*   none    - the text has no "Launch Likelihood:"
\*   nomatch - the label is there, no digit or dot follows it (nan, -0.5)
\*   bad     - digits and dots that are no float literal (1.2.3, 0.85.)
\*   num     - a float literal, v its value
NoLL == [t |-> "none", v |-> 0]
NoMatchLL == [t |-> "nomatch", v |-> 0]
BadLL == [t |-> "bad", v |-> 0]
NumLL(v) == [t |-> "num", v |-> v]

\* One {"type": "text", "text": ...} block, by what the code reads of it
TextBlock(kind) ==
    [kind |-> kind, urls |-> << >>, ll |-> NoLL, pos |-> 0, url |-> "",
     analyzed |-> 0, alerts |-> 0]

TextEmpty(b) == b.kind = "empty"

\* One collaborator call: position of the signal it is about (0: none), the
\* URL and score passed, whether it succeeded
Call(to, pos, url, score, ok) ==
    [to |-> to, pos |-> pos, url |-> url, score |-> score, ok |-> ok]

Signal(title, url, content, fields) ==
    [signal_title |-> title, url |-> url, content |-> content, fields |-> fields]

----------------------------------------------------------------------------
(* Inputs and collaborator answers explored *)

LongText == [i \in 1..(UrlCap + 1) |-> IF i % 2 = 1 THEN "a1" ELSE "a2"]

\* URLs found in the text of one search hit (title, url and snippet)
Texts ==
    { << >>, << "x1" >>, << "a1" >>, << "a1", "x1", "a2" >>,
      << "a2", "a1", "p1", "a1" >>, LongText }

\* Answers of the search API: each hit is given by the URLs of its text
HitLists ==
    { << >> } \cup { << t >> : t \in Texts }
              \cup { << t, << "a2" >> >> : t \in { << >>, << "a1" >> } }
              \cup { [i \in 1..UrlCap |-> IF i = 1 THEN LongText ELSE << "a2" >>] }

SearchOutcomes ==
    { [kind |-> k, hits |-> << >>] : k \in { "exception", "status" } }
        \cup { [kind |-> "ok", hits |-> h] : h \in HitLists }

Queries == { "", "q", "qurl" }
\* URLs that occur in the query text itself
QueryUrls(q) == IF q = "qurl" THEN << "a1" >> ELSE << >>

NumResultsInputs ==
    { None, Some(1 - UrlCap), Some(0), Some(MaxBatch + 1) }
        \cup { Some(n) : n \in 1..MaxNumResults }

Arguments ==
    [query : Queries, num_results : NumResultsInputs,
     target_fields : { << "pricing", "changelog" >> }, signals : { 0 }]

\* Sizes of the `signals` argument of a direct batch_score_signals call
DirectSizes == 0..MaxNumResults \cup (MaxBatch - 1)..MaxDirectSignals

NoArguments ==
    [query |-> "", num_results |-> None, target_fields |-> << >>, signals |-> 0]

\* Credentials present in the environment: all of them, or all but one
Environments ==
    { e \in [tavily : BOOLEAN, nimble : BOOLEAN, openai : BOOLEAN, slack : BOOLEAN] :
        Cardinality({ k \in DOMAIN e : ~e[k] }) <= 1 }

\* Which collaborators may fail or answer out of contract in one behaviour:
\* the fetch and field-parsing services, the scoring model, the database and
\* webhook.  The search service and the credentials vary in every profile.
\* The profile with all of them is explored for num_results <= 1 only, and
\* num_results above the batch limit in the profile with none of them.
FaultProfiles ==
    { { }, { "enrich" }, { "scorer" }, { "sink" }, { "enrich", "scorer", "sink" } }

HttpOutcomes == { "ok", "status", "exception" }
FetchOutcomes == IF "enrich" \in faults THEN HttpOutcomes ELSE { "ok" }
ParseOutcomes == IF "enrich" \in faults THEN HttpOutcomes ELSE { "ok" }
StoreOutcomes == IF "sink" \in faults THEN BOOLEAN ELSE { TRUE }
WebhookOutcomes == IF "sink" \in faults THEN HttpOutcomes ELSE { "ok" }

LikelihoodValues == { 4000, 7499, 7500, 8200 }
\* Likelihoods explored in answers that break the one-entry-per-signal contract
FaultyLikelihoods == { 4000, 8200 }

Inj(k, m) == { s \in [1..k -> 1..m] : \A i, j \in 1..k : i # j => s[i] # s[j] }

Entries(ids, liks) ==
    [i \in 1..Len(ids) |-> [signal_id |-> ids[i], launch_likelihood |-> liks[i]]]

InOrder(n) == [i \in 1..n |-> i]

LlmAnswer(kind, ll, entries) == [kind |-> kind, ll |-> ll, entries |-> entries]

\* Answers of the scoring model to a batch of n signals
LlmResponses(n) ==
    IF "scorer" \in faults
    THEN { LlmAnswer(k, NoLL, << >>) : k \in { "exception", "not_array" } }
         \cup { LlmAnswer("raw", ll, << >>) :
                  ll \in { NoLL, NoMatchLL, BadLL, NumLL(8200) } }
         \cup UNION { { LlmAnswer("json", NoLL, Entries(ids, liks)) :
                          ids \in Inj(k, n + 1), liks \in [1..k -> FaultyLikelihoods] } :
                        k \in 0..(n + 1) }
    ELSE IF faults = { }
    THEN { LlmAnswer("json", NoLL, Entries(InOrder(n), [i \in 1..n |-> v])) :
                  v \in LikelihoodValues }
    ELSE { LlmAnswer("json", NoLL, Entries(InOrder(n), liks)) :
                  liks \in [1..n -> LikelihoodValues] }

----------------------------------------------------------------------------
(* Handlers called by the pipeline; each returns the blocks it answers     *)
(* with and whether it called its collaborator                             *)

Answer(blocks, called) == [blocks |-> blocks, called |-> called]

ErrorBlock == TextBlock("error")

\* "Error: <NAME>_API_KEY environment variable not set"
MissingKeyBlock(name) == [TextBlock("missing_key") EXCEPT !.url = name]

\* "{x:.2f}": the likelihood rounded to two decimals
Format2f(x) == ((x + 50) \div 100) * 100

_search_tech_sites_handler(query, num_results, api_key, outcome) ==
    IF ~api_key THEN Answer(<< MissingKeyBlock("TAVILY_API_KEY") >>, FALSE)
    ELSE IF outcome.kind # "ok" THEN Answer(<< ErrorBlock >>, TRUE)
    ELSE IF outcome.hits = << >>
         THEN Answer(<< [TextBlock("no_results") EXCEPT !.urls = QueryUrls(query)] >>,
                     TRUE)
         ELSE Answer([i \in 1..Len(PySlice(outcome.hits, num_results)) |->
                         [TextBlock("hit") EXCEPT !.urls = outcome.hits[i], !.pos = i]],
                     TRUE)

\* Variant that answers a failed fetch with an empty text
_url_extract_handler_empty_on_error(url, outcome) ==
    IF outcome = "ok"
    THEN Answer(<< [TextBlock("page") EXCEPT !.url = url] >>, TRUE)
    ELSE Answer(<< TextBlock("empty") >>, TRUE)

_url_extract_handler(url, outcome) ==
    IF outcome = "ok"
    THEN Answer(<< [TextBlock("page") EXCEPT !.url = url] >>, TRUE)
    ELSE Answer(<< ErrorBlock >>, TRUE)

_parse_fields_handler(html, target_fields, api_key, outcome) ==
    IF TextEmpty(html) THEN Answer(<< ErrorBlock >>, FALSE)
    ELSE IF ~api_key THEN Answer(<< MissingKeyBlock("NIMBLE_API_KEY") >>, FALSE)
    ELSE IF outcome = "ok" THEN Answer(<< TextBlock("parsed") >>, TRUE)
    ELSE Answer(<< ErrorBlock >>, TRUE)

\* One analysis block per entry of the model's JSON array, then the summary
FormattedResults(signals, entries) ==
    [i \in 1..(Len(entries) + 1) |->
        IF i <= Len(entries)
        THEN [TextBlock("analysis") EXCEPT
                 !.pos = i,
                 !.url = IF i <= Len(signals) THEN signals[i].url ELSE "",
                 !.ll = NumLL(Format2f(entries[i].launch_likelihood))]
        ELSE [TextBlock("summary") EXCEPT
                 !.analyzed = Len(entries),
                 !.alerts = Cardinality({ j \in 1..Len(entries) :
                                entries[j].launch_likelihood > SummaryThreshold })]]

\* Variant that looks for the credential before the batch size
_batch_score_signals_handler_key_first(signals, api_key, response) ==
    IF signals = << >> THEN Answer(<< TextBlock("no_signals_error") >>, FALSE)
    ELSE IF ~api_key THEN Answer(<< MissingKeyBlock("OPENAI_API_KEY") >>, FALSE)
    ELSE IF Len(signals) > MaxBatch THEN Answer(<< TextBlock("size_limit_error") >>, FALSE)
    ELSE IF response.kind = "json"
         THEN Answer(FormattedResults(signals, response.entries), TRUE)
    ELSE IF response.kind = "raw"
         THEN Answer(<< [TextBlock("raw") EXCEPT !.ll = response.ll] >>, TRUE)
    ELSE Answer(<< ErrorBlock >>, TRUE)

_batch_score_signals_handler(signals, api_key, response) ==
    IF signals = << >> THEN Answer(<< TextBlock("no_signals_error") >>, FALSE)
    ELSE IF Len(signals) > MaxBatch THEN Answer(<< TextBlock("size_limit_error") >>, FALSE)
    ELSE IF ~api_key THEN Answer(<< MissingKeyBlock("OPENAI_API_KEY") >>, FALSE)
    ELSE IF response.kind = "json"
         THEN Answer(FormattedResults(signals, response.entries), TRUE)
    ELSE IF response.kind = "raw"
         THEN Answer(<< [TextBlock("raw") EXCEPT !.ll = response.ll] >>, TRUE)
    ELSE Answer(<< ErrorBlock >>, TRUE)

\* Variant without the cap on the number of URLs
_extract_urls_uncapped(search_text) ==
    LET ContainsDomain(u) == u \in { "a1", "a2", "p1" }
    IN  SelectSeqIdx(search_text.urls, ContainsDomain, 1)

\* Variant that cuts the URLs at the batch limit instead of the URL limit
_extract_urls_cut_at_batch_limit(search_text) ==
    LET ContainsDomain(u) == u \in { "a1", "a2", "p1" }
        filtered_urls == SelectSeqIdx(search_text.urls, ContainsDomain, 1)
    IN  SubSeq(filtered_urls, 1, Min(MaxBatch, Len(filtered_urls)))

_extract_urls_from_search_results(search_text) ==
    LET ContainsDomain(u) == u \in { "a1", "a2", "p1" }
        filtered_urls == SelectSeqIdx(search_text.urls, ContainsDomain, 1)
    IN  SubSeq(filtered_urls, 1, Min(UrlCap, Len(filtered_urls)))

----------------------------------------------------------------------------
(* Persistence and alerting *)

\* Variant that writes the row without its timestamp
store_signal_without_timestamp(rows, signal, db_ok) ==
    IF db_ok
    THEN [ok |-> TRUE,
          db |-> Append(rows, [id |-> Len(rows) + 1]
                                  @@ [signal EXCEPT !.created_at = None])]
    ELSE [ok |-> FALSE, db |-> rows]

\* Variant that writes over the newest row instead of adding one
store_signal_overwriting(rows, signal, db_ok) ==
    IF db_ok /\ ~IsNone(signal.created_at)
    THEN [ok |-> TRUE,
          db |-> IF rows = << >> THEN << [id |-> 1] @@ signal >>
                 ELSE [rows EXCEPT ![Len(rows)] = [id |-> Len(rows)] @@ signal]]
    ELSE [ok |-> FALSE, db |-> rows]

\* INSERT INTO signals: url and created_at are NOT NULL, id is AUTOINCREMENT
store_signal(rows, signal, db_ok) ==
    IF db_ok /\ ~IsNone(signal.created_at)
    THEN [ok |-> TRUE,
          db |-> Append(rows, [id |-> Len(rows) + 1] @@ signal)]
    ELSE [ok |-> FALSE, db |-> rows]

\* Variant that posts without looking at the configuration
send_slack_alert_unconfigured(webhook_url, outcome) ==
    [sent |-> outcome = "ok", called |-> TRUE]

\* Variant that reports an alert as sent whatever the webhook answered
send_slack_alert_always_sent(webhook_url, outcome) ==
    IF ~webhook_url THEN [sent |-> FALSE, called |-> FALSE]
    ELSE [sent |-> TRUE, called |-> TRUE]

send_slack_alert(webhook_url, outcome) ==
    IF ~webhook_url THEN [sent |-> FALSE, called |-> FALSE]
    ELSE [sent |-> outcome = "ok", called |-> TRUE]

----------------------------------------------------------------------------
(* run_pipeline *)

Return(blocks) == pc' = "done" /\ result' = blocks

Message(kind) == << TextBlock(kind) >>

\* except Exception at the end of _run_pipeline_handler
PipelineFailedUncaught == pc' = "raised" /\ result' = result
PipelineFailed == Return(Message("pipeline_failed"))

\* if signal_index < len(enriched_signals)
HasSignalOffByOne(i) == i < Len(enriched_signals)
HasSignal(i) == i <= Len(enriched_signals)

\* if score >= 0.75, whatever store_signal returned
AlertDueOnlyIfStored(score, db_success) == db_success /\ score >= AlertThreshold
AlertDue(score, db_success) == score >= AlertThreshold

\* urls[:num_results], the candidates the enrichment loop visits
Todo == PySlice(urls, args.num_results)

\* No concurrent runs
StoreIdle ==
    /\ runs = << >>
    /\ initial_rows = << >>

\* No text under decoding
DecodeIdle ==
    /\ text_block = << >>
    /\ decoded = << >>

\* No parser answer under recovery
FieldsIdle ==
    /\ parse_input = << >>
    /\ recovered = << >>

\* No server loop, no endpoint call
ServerIdle ==
    /\ loop = "off"
    /\ stdin = << >>
    /\ lines_read = 0
    /\ stdout = << >>
    /\ executed = << >>
    /\ http = << >>

AuxIdle == StoreIdle /\ DecodeIdle /\ FieldsIdle /\ ServerIdle

Init ==
    /\ pc = "idle"
    /\ tool = "none"
    /\ args = NoArguments
    /\ env \in Environments
    /\ faults \in FaultProfiles
    /\ search_response = [kind |-> "none", hits |-> << >>]
    /\ urls = << >>
    /\ idx = 0
    /\ enriched_signals = << >>
    /\ llm_response = LlmAnswer("none", NoLL, << >>)
    /\ scoring_result = << >>
    /\ si = 0
    /\ high_confidence_signals = << >>
    /\ db = << >>
    /\ calls = << >>
    /\ result = << >>
    /\ AuxIdle

\* Variant that starts the search whatever the query is
RunPipelineUngated ==
    /\ pc = "idle"
    /\ UNCHANGED aux
    /\ \E a \in Arguments :
        /\ Cardinality(faults) > 1 =>
              a.num_results \in { None, Some(1 - UrlCap), Some(0), Some(1) }
        /\ (faults = { }) <=> (a.num_results = Some(MaxBatch + 1))
        /\ tool' = "run_pipeline"
        /\ args' = a
        /\ pc' = "search" /\ UNCHANGED result
    /\ UNCHANGED << env, faults, search_response, urls, idx, enriched_signals, llm_response,
                    scoring_result, si, high_confidence_signals, db, calls >>

\* Entry of _run_pipeline_handler up to the first await.  `arguments` is a
\* dict, as the signature declares; num_results may be null.
RunPipeline ==
    /\ pc = "idle"
    /\ UNCHANGED aux
    /\ \E a \in Arguments :
        /\ Cardinality(faults) > 1 =>
              a.num_results \in { None, Some(1 - UrlCap), Some(0), Some(1) }
        /\ (faults = { }) <=> (a.num_results = Some(MaxBatch + 1))
        /\ tool' = "run_pipeline"
        /\ args' = a
        /\ IF a.query = ""
           THEN Return(Message("no_query"))
           ELSE pc' = "search" /\ UNCHANGED result
    /\ UNCHANGED << env, faults, search_response, urls, idx, enriched_signals, llm_response,
                    scoring_result, si, high_confidence_signals, db, calls >>

\* Step 1: search, URL extraction, and the start of the enrichment loop
Search ==
    /\ pc = "search"
    /\ UNCHANGED aux
    /\ \E outcome \in SearchOutcomes :
        LET answer == _search_tech_sites_handler(args.query, args.num_results,
                                                 env.tavily, outcome)
            search_results == answer.blocks
            found == _extract_urls_from_search_results(search_results[1])
        IN  /\ search_response' = IF answer.called THEN outcome ELSE search_response
            /\ calls' = IF answer.called
                        THEN Append(calls, Call("search", 0, "", 0, outcome.kind = "ok"))
                        ELSE calls
            /\ IF search_results = << >> \/ TextEmpty(search_results[1])
               THEN Return(Message("no_search_results")) /\ UNCHANGED urls
               ELSE IF found = << >>
               THEN Return(Message("no_urls")) /\ UNCHANGED urls
               ELSE IF IsNone(args.num_results)
               THEN \* min(len(urls), None) raises TypeError
                    PipelineFailed /\ urls' = found
               ELSE /\ urls' = found
                    /\ pc' = "enrich"
                    /\ UNCHANGED result
    /\ UNCHANGED << tool, args, env, faults, idx, enriched_signals, llm_response,
                    scoring_result, si, high_confidence_signals, db >>

\* Step 2: one iteration of the enrichment loop (fetch, then field parsing)
EnrichUrl ==
    /\ pc = "enrich"
    /\ UNCHANGED aux
    /\ idx < Len(Todo)
    /\ \E fetch \in FetchOutcomes, parse \in ParseOutcomes :
        LET i == idx + 1
            url == Todo[i]
            extracted == _url_extract_handler(url, fetch)
            extract_result == extracted.blocks
            no_content == extract_result = << >> \/ TextEmpty(extract_result[1])
            html_content == extract_result[1]
            parsed == _parse_fields_handler(html_content, args.target_fields,
                                            env.nimble, parse)
            parse_result == parsed.blocks
            no_fields == parse_result = << >> \/ TextEmpty(parse_result[1])
            signal == Signal(i, url, html_content.kind, parse_result[1].kind)
            fetch_call == << Call("fetch", i, url, 0, fetch = "ok") >>
            parse_call == IF ~no_content /\ parsed.called
                          THEN << Call("parse", i, url, 0, parse = "ok") >>
                          ELSE << >>
        IN  /\ calls' = calls \o fetch_call \o parse_call
            /\ enriched_signals' =
                  IF no_content \/ no_fields
                  THEN enriched_signals
                  ELSE Append(enriched_signals, signal)
            /\ idx' = idx + 1
    /\ UNCHANGED << pc, tool, args, env, faults, search_response, urls, llm_response, scoring_result, si,
                    high_confidence_signals, db, result >>

\* Step 3: the end of the enrichment loop and the batch scoring call
BatchScore ==
    /\ pc = "enrich"
    /\ UNCHANGED aux
    /\ idx = Len(Todo)
    /\ IF enriched_signals = << >>
       THEN /\ Return(Message("no_signals"))
            /\ UNCHANGED << llm_response, scoring_result, calls >>
       ELSE \E response \in LlmResponses(Len(enriched_signals)) :
            LET answer == _batch_score_signals_handler(enriched_signals, env.openai,
                                                       response)
            IN  /\ llm_response' = IF answer.called THEN response ELSE llm_response
                /\ calls' = IF answer.called
                            THEN Append(calls, Call("scorer", Len(enriched_signals), "", 0,
                                                    response.kind \in { "json", "raw" }))
                            ELSE calls
                /\ IF answer.blocks = << >>
                   THEN Return(Message("failed_to_score")) /\ UNCHANGED scoring_result
                   ELSE /\ scoring_result' = answer.blocks
                        /\ pc' = "interpret"
                        /\ UNCHANGED result
    /\ UNCHANGED << tool, args, env, faults, search_response, urls, idx, enriched_signals, si,
                    high_confidence_signals, db >>

\* Fields re-read from the "Parsed Fields:" part of the signal text
SignalFields(signal) == signal.fields

\* Variant that sends the alert of a signal before it stores the signal
InterpretBlockAlertFirst ==
    /\ pc = "interpret"
    /\ UNCHANGED aux
    /\ si < Len(scoring_result)
    /\ LET i == si + 1
           scoring_text == scoring_result[i]
       IN  IF scoring_text.ll.t \in { "none", "nomatch" }
           THEN /\ si' = si + 1
                /\ UNCHANGED << pc, result, db, calls, high_confidence_signals >>
           ELSE IF scoring_text.ll.t = "bad"
           THEN \* float() raises ValueError, caught at the end of the handler
                /\ PipelineFailed
                /\ UNCHANGED << si, db, calls, high_confidence_signals >>
           ELSE IF ~HasSignal(i)
           THEN /\ si' = si + 1
                /\ UNCHANGED << pc, result, db, calls, high_confidence_signals >>
           ELSE \E db_ok \in StoreOutcomes, hook \in WebhookOutcomes :
                LET score == scoring_text.ll.v
                    signal == enriched_signals[i]
                    url == IF i <= Len(urls) THEN urls[i] ELSE UnknownUrl
                    signal_data ==
                        [url |-> url,
                         title |-> signal.signal_title,
                         html_excerpt |-> [url |-> signal.url, content |-> signal.content],
                         fields |-> SignalFields(signal),
                         score |-> score,
                         created_at |-> Some(Len(calls))]
                    stored == store_signal(db, signal_data, db_ok)
                    alert == send_slack_alert(env.slack, hook)
                    store_call == << Call("store", i, url, score, stored.ok) >>
                    alert_call == IF AlertDue(score, stored.ok) /\ alert.called
                                  THEN << Call("webhook", i, url, score, hook = "ok") >>
                                  ELSE << >>
                IN  /\ db' = stored.db
                    /\ calls' = calls \o alert_call \o store_call
                    /\ high_confidence_signals' =
                          IF AlertDue(score, stored.ok) /\ alert.sent
                          THEN Append(high_confidence_signals, [pos |-> i, score |-> score])
                          ELSE high_confidence_signals
                    /\ si' = si + 1
                    /\ UNCHANGED << pc, result >>
    /\ UNCHANGED << tool, args, env, faults, search_response, urls, idx, enriched_signals, llm_response,
                    scoring_result >>

\* Step 4: one iteration of the interpretation loop (decode, store, alert)
InterpretBlock ==
    /\ pc = "interpret"
    /\ UNCHANGED aux
    /\ si < Len(scoring_result)
    /\ LET i == si + 1
           scoring_text == scoring_result[i]
       IN  IF scoring_text.ll.t \in { "none", "nomatch" }
           THEN /\ si' = si + 1
                /\ UNCHANGED << pc, result, db, calls, high_confidence_signals >>
           ELSE IF scoring_text.ll.t = "bad"
           THEN \* float() raises ValueError, caught at the end of the handler
                /\ PipelineFailed
                /\ UNCHANGED << si, db, calls, high_confidence_signals >>
           ELSE IF ~HasSignal(i)
           THEN /\ si' = si + 1
                /\ UNCHANGED << pc, result, db, calls, high_confidence_signals >>
           ELSE \E db_ok \in StoreOutcomes, hook \in WebhookOutcomes :
                LET score == scoring_text.ll.v
                    signal == enriched_signals[i]
                    url == IF i <= Len(urls) THEN urls[i] ELSE UnknownUrl
                    signal_data ==
                        [url |-> url,
                         title |-> signal.signal_title,
                         html_excerpt |-> [url |-> signal.url, content |-> signal.content],
                         fields |-> SignalFields(signal),
                         score |-> score,
                         created_at |-> Some(Len(calls))]
                    stored == store_signal(db, signal_data, db_ok)
                    alert == send_slack_alert(env.slack, hook)
                    store_call == << Call("store", i, url, score, stored.ok) >>
                    alert_call == IF AlertDue(score, stored.ok) /\ alert.called
                                  THEN << Call("webhook", i, url, score, hook = "ok") >>
                                  ELSE << >>
                IN  /\ db' = stored.db
                    /\ calls' = calls \o store_call \o alert_call
                    /\ high_confidence_signals' =
                          IF AlertDue(score, stored.ok) /\ alert.sent
                          THEN Append(high_confidence_signals, [pos |-> i, score |-> score])
                          ELSE high_confidence_signals
                    /\ si' = si + 1
                    /\ UNCHANGED << pc, result >>
    /\ UNCHANGED << tool, args, env, faults, search_response, urls, idx, enriched_signals, llm_response,
                    scoring_result >>

\* Variant that puts the scoring blocks before the detail blocks
ReportScoringFirst ==
    << [TextBlock("header") EXCEPT !.analyzed = Len(enriched_signals),
                                   !.alerts = Len(high_confidence_signals)] >>
    \o scoring_result
    \o [i \in 1..Len(enriched_signals) |->
          [TextBlock("detail") EXCEPT
              !.pos = i,
              !.url = IF i <= Len(urls) THEN urls[i] ELSE UnknownUrl,
              !.urls = << enriched_signals[i].url >>]]

\* The report: header, one detail block per enriched signal, scoring blocks
Report ==
    << [TextBlock("header") EXCEPT !.analyzed = Len(enriched_signals),
                                   !.alerts = Len(high_confidence_signals)] >>
    \o [i \in 1..Len(enriched_signals) |->
          [TextBlock("detail") EXCEPT
              !.pos = i,
              !.url = IF i <= Len(urls) THEN urls[i] ELSE UnknownUrl,
              !.urls = << enriched_signals[i].url >>]]
    \o scoring_result

\* Variant that never hands the report back
FinishNeverReturns ==
    /\ pc = "interpret"
    /\ si = Len(scoring_result)
    /\ UNCHANGED vars

Finish ==
    /\ pc = "interpret"
    /\ UNCHANGED aux
    /\ si = Len(scoring_result)
    /\ Return(Report)
    /\ UNCHANGED << tool, args, env, faults, search_response, urls, idx, enriched_signals, llm_response,
                    scoring_result, si, high_confidence_signals, db, calls >>

\* A direct tools/call of batch_score_signals
BatchScoreTool ==
    /\ pc = "idle"
    /\ UNCHANGED aux
    /\ \E n \in DirectSizes, response \in LlmResponses(1) :
        LET signals == [i \in 1..n |-> Signal(i, "", "page", "parsed")]
            answer == _batch_score_signals_handler(signals, env.openai, response)
        IN  /\ tool' = "batch_score_signals"
            /\ args' = [NoArguments EXCEPT !.signals = n]
            /\ llm_response' = IF answer.called THEN response ELSE llm_response
            /\ calls' = IF answer.called
                        THEN Append(calls, Call("scorer", n, "", 0,
                                                response.kind \in { "json", "raw" }))
                        ELSE calls
            /\ Return(answer.blocks)
    /\ UNCHANGED << env, faults, search_response, urls, idx, enriched_signals, scoring_result, si,
                    high_confidence_signals, db >>

Next ==
    \/ RunPipeline
    \/ Search
    \/ EnrichUrl
    \/ BatchScore
    \/ InterpretBlock
    \/ Finish
    \/ BatchScoreTool

Spec == Init /\ [][Next]_vars

\* Every collaborator call returns or fails in the end, so a run that can
\* take its next step does take it;
\* that step is explored for the runs in which every collaborator may fail.
InitLive == Init /\ faults = { "enrich", "scorer", "sink" }

LiveSpec == InitLive /\ [][Next]_vars /\ WF_vars(Next)

----------------------------------------------------------------------------
(* Concurrent pipeline runs on one server *)

\* Two runs share the server object and the table.  Each run is followed
\* through its interpretation loop, which is where it writes: store_signal
\* is a plain function without await, so one call is one step; the await of
\* send_slack_alert after it is where another run may get its turn.  Runs
\* are also allowed to take turns between two iterations.
StoreRuns == { "r1", "r2" }

\* A run about to interpret n decoded blocks
Run(n) == [n |-> n, si |-> 0, at |-> "loop", stored |-> << >>]

\* The pipeline variables a scenario without tool call leaves alone
PipelineIdle ==
    /\ pc = "idle"
    /\ tool = "none"
    /\ args = NoArguments
    /\ env = [tavily |-> TRUE, nimble |-> TRUE, openai |-> TRUE, slack |-> TRUE]
    /\ faults = { "sink" }
    /\ search_response = [kind |-> "none", hits |-> << >>]
    /\ urls = << >>
    /\ idx = 0
    /\ enriched_signals = << >>
    /\ llm_response = LlmAnswer("none", NoLL, << >>)
    /\ scoring_result = << >>
    /\ si = 0
    /\ high_confidence_signals = << >>
    /\ calls = << >>
    /\ result = << >>

pipeline_vars ==
    << pc, tool, args, env, faults, search_response, urls, idx, enriched_signals, llm_response,
       scoring_result, si, high_confidence_signals, db, calls, result >>

\* The row a run passes to store_signal for its block i
SignalData(i, url, score) ==
    [url |-> url,
     title |-> i,
     html_excerpt |-> [url |-> url, content |-> "page"],
     fields |-> "parsed",
     score |-> score,
     created_at |-> Some(i)]

InitStore ==
    /\ PipelineIdle
    /\ DecodeIdle /\ FieldsIdle /\ ServerIdle
    /\ initial_rows \in { << >>, << [id |-> 1] @@ SignalData(1, "a1", 8200) >> }
    /\ db = initial_rows
    /\ runs \in { f \in [StoreRuns -> { Run(n) : n \in 1..MaxStoreCalls }] :
                    f["r1"].n + f["r2"].n <= MaxStoreCalls }

\* One iteration of run r's interpretation loop, up to its await or its end
StoreScored(r) ==
    /\ runs[r].at = "loop"
    /\ runs[r].si < runs[r].n
    /\ \E db_ok \in StoreOutcomes, score \in FaultyLikelihoods, url \in { "a1", "a2" } :
        LET i == runs[r].si + 1
            stored == store_signal(db, SignalData(i, url, score), db_ok)
        IN  /\ db' = stored.db
            /\ runs' = [runs EXCEPT ![r] =
                  [n |-> @.n,
                   si |-> i,
                   at |-> IF AlertDue(score, stored.ok) THEN "alert"
                          ELSE IF i = @.n THEN "done" ELSE "loop",
                   stored |-> IF stored.ok
                              THEN Append(@.stored, [pos |-> i, url |-> url, score |-> score,
                                                     id |-> Len(stored.db)])
                              ELSE @.stored]]
    /\ UNCHANGED << pc, tool, args, env, faults, search_response, urls, idx, enriched_signals,
                    llm_response, scoring_result, si, high_confidence_signals, calls, result,
                    initial_rows, decode_vars, fields_vars, server_vars >>

\* send_slack_alert of run r returns and its loop goes on
AlertReturned(r) ==
    /\ runs[r].at = "alert"
    /\ runs' = [runs EXCEPT ![r].at = IF runs[r].si = runs[r].n THEN "done" ELSE "loop"]
    /\ UNCHANGED << pc, tool, args, env, faults, search_response, urls, idx, enriched_signals,
                    llm_response, scoring_result, si, high_confidence_signals, db, calls, result,
                    initial_rows, decode_vars, fields_vars, server_vars >>

NextStore ==
    \/ \E r \in StoreRuns : StoreScored(r)
    \/ \E r \in StoreRuns : AlertReturned(r)

SpecStore == InitStore /\ [][NextStore]_vars

----------------------------------------------------------------------------
(* Decoding of a scoring block *)

\* A text is a sequence of lines, a line a sequence of segments.  A segment
\* is either free text (label "") or "<Label>: <value>"; a segment that is
\* not the first of its line is a label in the middle of the line.
Seg(label, value) == [label |-> label, value |-> value]

ScoringSegs ==
    { Seg("", "text"),
      Seg("Launch Likelihood", "0.85"), Seg("Launch Likelihood", "soon"),
      Seg("Confidence", "High"), Seg("Confidence", ""),
      Seg("Reasoning", "test"), Seg("Reasoning", "") }

ScoringLines ==
    { << g >> : g \in ScoringSegs }
        \cup { << g, h >> : g \in { Seg("", "text"), Seg("Reasoning", "test") },
                            h \in ScoringSegs \ { Seg("", "text") } }

ScoringTexts == UNION { [1..n -> ScoringLines] : n \in 1..MaxLines }

\* Positions of the segments of a text, in reading order
Positions(lines) ==
    UNION { { << i, k >> : k \in 1..Len(lines[i]) } : i \in 1..Len(lines) }

Before(p, q) == p[1] < q[1] \/ (p[1] = q[1] /\ p[2] < q[2])

FirstPos(S) == CHOOSE p \in S : \A q \in S : p = q \/ Before(p, q)

\* Where "<label>:" occurs in the text
LabelAt(lines, label) ==
    { p \in Positions(lines) : lines[p[1]][p[2]].label = label }

\* What follows "<label>: " up to the end of the line
RestOfLine(lines, p) ==
    << Seg("", lines[p[1]][p[2]].value) >>
        \o SubSeq(lines[p[1]], p[2] + 1, Len(lines[p[1]]))

NonEmptyRest(lines, p) ==
    ~(lines[p[1]][p[2]].value = "" /\ p[2] = Len(lines[p[1]]))

\* re.search(r"<label>: ([^\n]+)", text): the first occurrence of the label
\* that is followed by at least one character on its line
SearchLine(lines, label) ==
    LET S == { p \in LabelAt(lines, label) : NonEmptyRest(lines, p) }
    IN  IF S = { } THEN None ELSE Some(RestOfLine(lines, FirstPos(S)))

IsNumber(v) == v \in { "0.85" }
NumberOf(v) == IF v = "0.85" THEN 8500 ELSE 0

\* re.search(r"Launch Likelihood: ([\d.]+)", text) and float()
SearchLikelihood(lines) ==
    LET S == { p \in LabelAt(lines, "Launch Likelihood") :
                 IsNumber(lines[p[1]][p[2]].value) }
    IN  IF S = { } THEN None
        ELSE Some(NumberOf(lines[FirstPos(S)[1]][FirstPos(S)[2]].value))

Unknown == << Seg("", "Unknown") >>
NoReasoning == << Seg("", "No reasoning provided") >>

NotDecoded == [found |-> FALSE, score |-> 0, confidence |-> << >>, reasoning |-> << >>]

\* The decoding of one block in the interpretation loop
DecodeScoringText(lines) ==
    IF LabelAt(lines, "Launch Likelihood") = { } THEN NotDecoded
    ELSE IF IsNone(SearchLikelihood(lines)) THEN NotDecoded
    ELSE [found |-> TRUE,
          score |-> Val(SearchLikelihood(lines)),
          confidence |->
              IF LabelAt(lines, "Confidence") # { } /\ ~IsNone(SearchLine(lines, "Confidence"))
              THEN Val(SearchLine(lines, "Confidence")) ELSE Unknown,
          reasoning |->
              IF LabelAt(lines, "Reasoning") # { } /\ ~IsNone(SearchLine(lines, "Reasoning"))
              THEN Val(SearchLine(lines, "Reasoning")) ELSE NoReasoning]

InitDecode ==
    /\ PipelineIdle
    /\ db = << >>
    /\ StoreIdle /\ FieldsIdle /\ ServerIdle
    /\ text_block \in ScoringTexts
    /\ decoded = << >>

DecodeBlock ==
    /\ text_block # << >>
    /\ decoded = << >>
    /\ decoded' = << DecodeScoringText(text_block) >>
    /\ UNCHANGED << pipeline_vars, store_vars, fields_vars, server_vars, text_block >>

NextDecode == DecodeBlock

SpecDecode == InitDecode /\ [][NextDecode]_vars

----------------------------------------------------------------------------
(* Round trip of the extracted fields through the signal text *)

FieldNames == { "pricing", "changelog" }

\* str.title() of a field key
Title(field) == IF field = "pricing" THEN "Pricing" ELSE "Changelog"

\* Single-line values the field parser may return: two plain ones, the empty
\* one, and one that mentions another field's label
FieldValues ==
    { << Seg("", "$9") >>, << Seg("", "v1.2") >>, << Seg("", "") >>,
      << Seg("", "see"), Seg("Changelog", "v2") >> }

\* Answers of the field parser: a value for some of the fields
ParserResults ==
    UNION { [present -> FieldValues] : present \in SUBSET FieldNames }

TargetFieldLists ==
    { << "pricing", "changelog" >>, << "changelog", "pricing" >>,
      << "pricing" >>, << "changelog" >> }

NoDataFound == << Seg("", "No data found") >>

\* The marker line "Parsed Fields:"
Marker == << Seg("Parsed Fields", "") >>

\* _parse_fields_handler, status 200: one "<Title>: <value>" line per target field
FormatFields(nimble_result, target_fields) ==
    << Marker, << >> >> \o
    [k \in 1..Len(target_fields) |->
        LET field == target_fields[k]
            value == IF field \in DOMAIN nimble_result THEN nimble_result[field]
                     ELSE NoDataFound
        IN  << Seg(Title(field), value[1].value) >> \o Tail(value)]

\* The signal text composed by the enrichment loop; the page itself shows a price
SignalText(parsed_fields) ==
    << << Seg("URL", "a1") >>, << >>, << Seg("", "Extracted Content:") >>,
       << Seg("Pricing", "free") >>, << >>, Marker >> \o parsed_fields

\* signal_text.split("Parsed Fields:")[-1].strip()
AfterLastMarker(lines) ==
    LET markers == { i \in 1..Len(lines) : lines[i] = Marker }
        last == CHOOSE i \in markers : \A j \in markers : j <= i
        rest == SubSeq(lines, last + 1, Len(lines))
        Blank(line) == line = << >>
        first == CHOOSE i \in 1..(Len(rest) + 1) :
                    /\ i = Len(rest) + 1 \/ ~Blank(rest[i])
                    /\ \A j \in 1..(i - 1) : Blank(rest[j])
    IN  SubSeq(rest, first, Len(rest))

\* The `fields` dict the interpretation loop rebuilds from the signal text
RecoverFields(signal_text, target_fields) ==
    IF \A i \in 1..Len(signal_text) : signal_text[i] # Marker
    THEN << >>
    ELSE LET fields_text == AfterLastMarker(signal_text)
             found == { k \in 1..Len(target_fields) :
                          /\ LabelAt(fields_text, Title(target_fields[k])) # { }
                          /\ ~IsNone(SearchLine(fields_text, Title(target_fields[k]))) }
         IN  [field \in { target_fields[k] : k \in found } |->
                  Val(SearchLine(fields_text, Title(field)))]

EmptyText == << Seg("", "") >>

\* The columns store_signal is given: fields.get(name, "")
StoredColumns(fields) ==
    [name \in FieldNames |-> IF name \in DOMAIN fields THEN fields[name] ELSE EmptyText]

\* The fields send_slack_alert lists: those with a non-blank value
AlertedFields(fields) ==
    { name \in DOMAIN fields : fields[name] # EmptyText }

InitFields ==
    /\ PipelineIdle
    /\ db = << >>
    /\ StoreIdle /\ DecodeIdle /\ ServerIdle
    /\ parse_input \in [result : ParserResults, target_fields : TargetFieldLists]
    /\ recovered = << >>

RecoverFromSignal ==
    /\ parse_input # << >>
    /\ recovered = << >>
    /\ LET parsed_fields == FormatFields(parse_input.result, parse_input.target_fields)
           fields == RecoverFields(SignalText(parsed_fields), parse_input.target_fields)
       IN  recovered' = << [fields |-> fields,
                            stored |-> StoredColumns(fields),
                            alerted |-> AlertedFields(fields)] >>
    /\ UNCHANGED << pipeline_vars, store_vars, decode_vars, server_vars, parse_input >>

NextFields == RecoverFromSignal

SpecFields == InitFields /\ [][NextFields]_vars

----------------------------------------------------------------------------
(* The stdio server loop and the HTTP endpoints *)

Tools ==
    { "web_search", "url_extract", "score_signal", "search_tech_sites",
      "parse_fields", "batch_score_signals", "run_pipeline" }

\* The "id" member of a request: absent (or null), a number or a string
NoId == [type |-> "none", n |-> 0, s |-> ""]
IntId(n) == [type |-> "int", n |-> n, s |-> ""]
StrId(s) == [type |-> "str", n |-> 0, s |-> s]
Ids == { NoId, IntId(7), StrId("a") }

\* str(request_id)
Digits == << "0", "1", "2", "3", "4", "5", "6", "7", "8", "9" >>
StrOf(id) == IF id.type = "int" THEN Digits[id.n + 1] ELSE id.s

\* A line of input: text that is not JSON (the empty line included), JSON
\* that is not an object, or a JSON object with its members
Line(json, id, method, params, name, arguments) ==
    [json |-> json, id |-> id, method |-> method, params |-> params,
     name |-> name, arguments |-> arguments]

NotJson == Line("invalid", NoId, "", "", "", "")
JsonArray == Line("array", NoId, "", "", "", "")

Lines ==
    { NotJson, JsonArray,
      Line("object", IntId(7), "tools/list", "absent", "", ""),
      Line("object", NoId, "ping", "absent", "", ""),
      Line("object", IntId(7), "tools/call", "null", "", ""),
      Line("object", StrId("a"), "tools/call", "dict", "nope", "dict"),
      Line("object", IntId(7), "tools/call", "dict", "run_pipeline", "null") }
        \cup { Line("object", id, "initialize", "absent", "", "") : id \in Ids }
        \cup { Line("object", id, "tools/call", "dict", "run_pipeline", "dict") :
                 id \in Ids }

Inputs == UNION { [1..n -> Lines] : n \in 0..MaxRequests }

\* What a tool handler does with well-typed arguments: it returns its
\* result, or catches its failure and returns an error text
HandlerOutcomes == { "ok", "failed" }

\* A tool handler: the arguments.get(...) of its first lines is outside its try
Handler(arguments, outcome) ==
    IF arguments # "dict" THEN [raised |-> TRUE, content |-> "none"]
    ELSE [raised |-> FALSE, content |-> outcome]

\* Variant that lets the exception of a handler through
execute_tool_uncaught(tool_name, arguments, outcome) ==
    IF tool_name \in Tools
    THEN [raised |-> Handler(arguments, outcome).raised,
          content |-> Handler(arguments, outcome).content,
          ran |-> << tool_name >>]
    ELSE [raised |-> TRUE, content |-> "none", ran |-> << >>]

execute_tool(tool_name, arguments, outcome) ==
    IF tool_name \in Tools
    THEN [raised |-> FALSE,
          content |-> IF Handler(arguments, outcome).raised THEN "executing_error"
                      ELSE Handler(arguments, outcome).content,
          ran |-> << tool_name >>]
    ELSE [raised |-> FALSE, content |-> "executing_error", ran |-> << >>]

Response(id, kind, code, content, isError) ==
    [id |-> id, kind |-> kind, code |-> code, content |-> content, isError |-> isError]

ResultResponse(id, content) == Response(id, "result", 0, content, "false")
ErrorResponse(id, code) == Response(id, "error", code, "none", "absent")

\* handle_request: the response, or the exception it lets through
handle_request(req, outcome) ==
    IF req.json # "object"
    THEN \* request.get raises in the try block and again in the except block
         [raised |-> TRUE, response |-> ErrorResponse("", 0), ran |-> << >>]
    ELSE LET request_id == IF req.id.type = "none" THEN "unknown" ELSE StrOf(req.id)
             answered(r) == [raised |-> FALSE, response |-> r, ran |-> << >>]
         IN  IF req.method = "initialize" THEN answered(ResultResponse(request_id, "initialize"))
             ELSE IF req.method = "tools/list" THEN answered(ResultResponse(request_id, "tools"))
             ELSE IF req.method = "tools/call"
             THEN IF req.params # "dict" THEN answered(ErrorResponse(request_id, 0 - 32603))
                  ELSE IF req.name \notin Tools
                  THEN answered(ErrorResponse(request_id, 0 - 32601))
                  ELSE LET tool_result == execute_tool(req.name, req.arguments, outcome)
                       IN  [raised |-> FALSE,
                            response |-> IF tool_result.raised
                                         THEN ErrorResponse(request_id, 0 - 32603)
                                         ELSE ResultResponse(request_id, tool_result.content),
                            ran |-> tool_result.ran]
             ELSE answered(ErrorResponse(request_id, 0 - 32601))

InitServer ==
    /\ PipelineIdle
    /\ db = << >>
    /\ StoreIdle /\ DecodeIdle /\ FieldsIdle
    /\ loop = "reading"
    /\ stdin \in Inputs
    /\ lines_read = 0
    /\ stdout = << >>
    /\ executed = << >>
    /\ http = << >>

\* sys.stdin.readline(): the next line, or the end of input
ReadLine ==
    /\ loop = "reading"
    /\ IF lines_read = Len(stdin)
       THEN loop' = "ended" /\ UNCHANGED lines_read
       ELSE loop' = "handling" /\ lines_read' = lines_read + 1
    /\ UNCHANGED << pipeline_vars, store_vars, decode_vars, fields_vars,
                    stdin, stdout, executed, http >>

\* json.loads, handle_request and print for the line just read
HandleLine ==
    /\ loop = "handling"
    /\ \E outcome \in HandlerOutcomes :
        LET req == stdin[lines_read]
            handled == handle_request(req, outcome)
        IN  IF req.json = "invalid"
            THEN UNCHANGED << stdout, executed >>
            ELSE /\ executed' = executed \o
                        [k \in 1..Len(handled.ran) |->
                            [line |-> lines_read, tool |-> handled.ran[k]]]
                 /\ stdout' = IF handled.raised THEN stdout
                              ELSE Append(stdout, [line |-> lines_read] @@ handled.response)
    /\ loop' = "reading"
    /\ UNCHANGED << pipeline_vars, store_vars, decode_vars, fields_vars,
                    stdin, lines_read, http >>

\* A POST to /tools/<name> of the FastAPI server: the body is validated into
\* a dict of well-typed arguments before the handler is awaited
CallEndpoint ==
    /\ http = << >>
    /\ \E name \in Tools, outcome \in HandlerOutcomes :
        LET handled == Handler("dict", outcome)
        IN  http' = << [tool |-> name,
                        content |-> IF handled.raised THEN "failed_text" ELSE handled.content,
                        isError |-> IF handled.raised THEN "true" ELSE "false"] >>
    /\ UNCHANGED << pipeline_vars, store_vars, decode_vars, fields_vars,
                    loop, stdin, lines_read, stdout, executed >>

NextServer ==
    \/ ReadLine
    \/ HandleLine
    \/ CallEndpoint

SpecServer == InitServer /\ [][NextServer]_vars

----------------------------------------------------------------------------
(* Properties *)

InPipeline == tool = "run_pipeline"
PipelineDone == InPipeline /\ pc = "done"
IsReport == result # << >> /\ result[1].kind = "header"

CallsTo(to) == { j \in 1..Len(calls) : calls[j].to = to }
CallsAbout(to, i) == { j \in CallsTo(to) : calls[j].pos = i }

\* Blocks the interpretation loop has decoded into a score for a signal
ScoredPositions ==
    { i \in 1..Len(scoring_result) :
        /\ i <= si
        /\ scoring_result[i].ll.t = "num"
        /\ i <= Len(enriched_signals) }

C2_RowsEqualDecoded ==
    PipelineDone =>
        /\ Len(db) = Cardinality(ScoredPositions)
        /\ Cardinality(ScoredPositions) <= Len(enriched_signals)
        /\ Len(enriched_signals) <= Len(urls)
        /\ Len(urls) <= UrlCap

\* C2 (amended): rows appended = store calls that succeeded <= store calls =
\* blocks decoded into a score for a signal <= enriched signals <= candidate
\* URLs <= 10, and rows = decoded blocks when no store write failed.
C2_RowsBoundedByDecoded ==
    InPipeline =>
        /\ Len(db) = Cardinality({ j \in CallsTo("store") : calls[j].ok })
        /\ Cardinality(CallsTo("store")) = Cardinality(ScoredPositions)
        /\ Len(db) <= Cardinality(ScoredPositions)
        /\ (\A j \in CallsTo("store") : calls[j].ok)
              => Len(db) = Cardinality(ScoredPositions)
        /\ Cardinality(ScoredPositions) <= Len(enriched_signals)
        /\ Len(enriched_signals) <= Len(urls)
        /\ Len(urls) <= UrlCap

\* A finished run with a failed store write, and more candidates than the cap
C2_Witness ==
    /\ PipelineDone
    /\ IsReport
    /\ Len(urls) = UrlCap
    /\ \E j \in CallsTo("store") : ~calls[j].ok
    /\ Len(db) >= 1


\* C3 (as claimed): a candidate whose content fetch failed or answered with a
\* non-success status, or whose field extraction failed, yields no enriched
\* signal, and the remaining candidates are still processed.
C3_FailedUrlYieldsNoSignal ==
    /\ \A j \in CallsTo("fetch") \cup CallsTo("parse") :
          ~calls[j].ok =>
              \A k \in 1..Len(enriched_signals) :
                  enriched_signals[k].signal_title # calls[j].pos
    /\ (InPipeline /\ pc = "interpret") =>
          \A i \in 1..Len(Todo) : CallsAbout("fetch", i) # { }

C5_ScoreOfNamedSignal ==
    (/\ InPipeline
     /\ llm_response.kind = "json"
     /\ \A e \in 1..Len(llm_response.entries) :
           llm_response.entries[e].signal_id <= Len(enriched_signals)) =>
        \A j \in CallsTo("store") \cup CallsTo("webhook") :
            \E e \in 1..Len(llm_response.entries) :
                /\ llm_response.entries[e].signal_id = calls[j].pos
                /\ Format2f(llm_response.entries[e].launch_likelihood) = calls[j].score

\* C6: with n signals submitted and k analysis blocks returned, all decodable,
\* the run stores min(k, n) signals, the i-th for enriched signal i with the
\* likelihood of block i; it ends with a report; no block beyond n is stored
\* or alerted.
C6_PositionalPrefix ==
    (PipelineDone /\ llm_response.kind = "json") =>
        LET n == Len(enriched_signals)
            k == Len(llm_response.entries)
            stores == SelectSeq(calls, LAMBDA c : c.to = "store")
        IN  /\ IsReport
            /\ Len(stores) = Min(k, n)
            /\ \A i \in 1..Len(stores) :
                  /\ stores[i].pos = i
                  /\ stores[i].url = enriched_signals[i].url
                  /\ stores[i].score =
                        Format2f(llm_response.entries[i].launch_likelihood)
            /\ \A j \in CallsTo("store") \cup CallsTo("webhook") : calls[j].pos <= n

\* A report after the scorer answered with fewer blocks than signals
C6_Witness ==
    /\ PipelineDone
    /\ IsReport
    /\ llm_response.kind = "json"
    /\ Len(llm_response.entries) >= 1
    /\ Len(llm_response.entries) < Len(enriched_signals)
    /\ Cardinality(CallsTo("store")) = Len(llm_response.entries)

\* C7: batch_score_signals with more than 20 signals answers with the
\* size-limit error and does not call the scoring model, with or without the
\* scoring credential.
C7_SizeLimit ==
    (tool = "batch_score_signals" /\ pc = "done" /\ args.signals > MaxBatch) =>
        /\ result = << TextBlock("size_limit_error") >>
        /\ calls = << >>

\* 21 signals submitted without the scoring credential
C7_Witness ==
    /\ tool = "batch_score_signals"
    /\ pc = "done"
    /\ args.signals = MaxBatch + 1
    /\ ~env.openai
    /\ result = << TextBlock("size_limit_error") >>

\* C8 (as claimed): a scoring block whose likelihood text is no float literal
\* is neither stored nor alerted, and the run still ends with a report.
C8_BadFloatSkipped ==
    (PipelineDone /\ \E i \in 1..Len(scoring_result) : scoring_result[i].ll.t = "bad") =>
        /\ IsReport
        /\ \A i \in 1..Len(scoring_result) :
              scoring_result[i].ll.t = "bad" =>
                  CallsAbout("store", i) \cup CallsAbout("webhook", i) = { }

\* C9: store_signal is called exactly once for every signal whose score was
\* decoded, whatever the score, and never for anything else; every stored
\* row has a created_at timestamp.
C9_StoreEveryScored ==
    InPipeline =>
        /\ \A i \in ScoredPositions : Cardinality(CallsAbout("store", i)) = 1
        /\ \A j \in CallsTo("store") : calls[j].pos \in ScoredPositions
        /\ \A r \in 1..Len(db) : ~IsNone(db[r].created_at)

\* A report with a row below the alert threshold and a row at the threshold
C9_Witness ==
    /\ PipelineDone
    /\ IsReport
    /\ \E r \in 1..Len(db) : db[r].score < AlertThreshold
    /\ \E r \in 1..Len(db) : db[r].score = AlertThreshold

\* C10: a failed store write does not raise; the alert decision is still made
\* for that signal, every remaining scored signal is still stored, and the
\* run ends with the report.
C10_StoreFailureTolerated ==
    /\ pc # "raised"
    /\ (PipelineDone /\ \E j \in CallsTo("store") : ~calls[j].ok) =>
          /\ IsReport
          /\ si = Len(scoring_result)
          /\ \A j \in CallsTo("store") :
                (~calls[j].ok /\ calls[j].score >= AlertThreshold /\ env.slack)
                    => CallsAbout("webhook", calls[j].pos) # { }
          /\ \A i \in 1..Len(scoring_result) :
                (scoring_result[i].ll.t = "num" /\ i <= Len(enriched_signals))
                    => CallsAbout("store", i) # { }

\* A report after the store write of the first signal failed, with its alert
\* sent and the second signal stored
C10_Witness ==
    /\ PipelineDone
    /\ IsReport
    /\ \E j \in CallsAbout("store", 1) : ~calls[j].ok
    /\ \E j \in CallsAbout("webhook", 1) : calls[j].ok
    /\ \E r \in 1..Len(db) : db[r].title = 2

\* The scoring model answered with one entry per signal, in signal order
InContract ==
    /\ llm_response.kind = "json"
    /\ Len(llm_response.entries) = Len(enriched_signals)
    /\ \A i \in 1..Len(llm_response.entries) : llm_response.entries[i].signal_id = i

\* C11 (as claimed): with a webhook configured, the run dispatches an alert
\* for a signal exactly when the likelihood the scorer assigned to it is at
\* least 0.75; 0.7499 does not alert.
C11_AlertIffAtLeastThreshold ==
    (PipelineDone /\ IsReport /\ env.slack /\ InContract) =>
        \A i \in 1..Len(llm_response.entries) :
            (CallsAbout("webhook", i) # { })
                <=> (llm_response.entries[i].launch_likelihood >= AlertThreshold)

\* C12: when no webhook endpoint is configured, no step of a run calls the
\* webhook, counts an alert as sent or raises, and every step leaves the rows
\* already stored as they were, the row of the signal being alerted included.
C12_NoWebhookNoOp ==
    [][ (InPipeline /\ ~env.slack) =>
          /\ CallsTo("webhook")' = { }
          /\ high_confidence_signals' = << >>
          /\ pc' # "raised"
          /\ Len(db') >= Len(db)
          /\ \A r \in 1..Len(db) : db'[r] = db[r]
          /\ \A j \in CallsTo("store")' :
                calls'[j].ok => \E r \in 1..Len(db') :
                                    /\ db'[r].url = calls'[j].url
                                    /\ db'[r].score = calls'[j].score ]_vars

\* A finished run without webhook that stored a signal above the threshold
C12_Witness ==
    /\ PipelineDone /\ IsReport
    /\ ~env.slack
    /\ \E r \in 1..Len(db) : db[r].score >= AlertThreshold
    /\ result[1].alerts = 0

\* Positions of the signals counted as alerted
AlertedPositions ==
    { high_confidence_signals[k].pos : k \in 1..Len(high_confidence_signals) }

\* C13: within one run the webhook is called at most once per scored signal;
\* a delivery that fails is not repeated, its signal is not counted as
\* alerted, and the failure does not raise into run_pipeline.
C13_AtMostOneDelivery ==
    InPipeline =>
        /\ pc # "raised"
        /\ \A j, k \in CallsTo("webhook") : calls[j].pos = calls[k].pos => j = k
        /\ \A j \in CallsTo("webhook") :
              /\ calls[j].pos \in ScoredPositions
              /\ ~calls[j].ok => calls[j].pos \notin AlertedPositions
        /\ Len(high_confidence_signals) = Cardinality(AlertedPositions)

\* A finished run in which one delivery failed and a later one succeeded
C13_Witness ==
    /\ PipelineDone /\ IsReport
    /\ \E j, k \in CallsTo("webhook") :
          /\ j < k
          /\ ~calls[j].ok
          /\ calls[k].ok
    /\ result[1].alerts = 1

\* The search service was reached and answered with no hit at all
ZeroSearchResults == search_response.kind = "ok" /\ search_response.hits = << >>

\* The search service answered with hits, none of which holds a candidate URL
ZeroCandidateUrls ==
    /\ search_response.kind = "ok"
    /\ search_response.hits # << >>
    /\ \A h \in 1..Len(search_response.hits) :
          _extract_urls_from_search_results(
              [TextBlock("hit") EXCEPT !.urls = search_response.hits[h]]) = << >>

\* C14 (as claimed): a run that met one of the disqualifying conditions
\* returns the message of that condition and of no other; a search without
\* results is not answered with the message of a search whose results hold
\* no allow-listed URL, nor with the message of any other condition.
C14_DistinctMessages ==
    PipelineDone =>
        /\ args.query = "" => result = Message("no_query")
        /\ (args.query # "" /\ ZeroSearchResults) =>
              result \notin { Message("no_query"), Message("no_urls"),
                              Message("no_signals"), Message("failed_to_score") }
        /\ (args.query # "" /\ ZeroCandidateUrls /\ result # Message("no_search_results")) =>
              result = Message("no_urls")

\* C15 (as claimed): a run whose scoring blocks hold no decodable score
\* (an error text, a raw answer or blocks without a likelihood value) ends
\* with a disqualifying message, not with the report.
C15_NoScoreAborts ==
    (/\ PipelineDone
     /\ scoring_result # << >>
     /\ \A i \in 1..Len(scoring_result) : scoring_result[i].ll.t \in { "none", "nomatch" })
        => /\ ~IsReport
           /\ Len(result) = 1

\* The search answered with k hits, 1 <= k <= num_results <= 10, each hit
\* holding one allow-listed URL, no two hits the same one
DistinctAllowListedHits ==
    /\ search_response.kind = "ok"
    /\ Len(search_response.hits) >= 1
    /\ ~IsNone(args.num_results)
    /\ Len(search_response.hits) <= Val(args.num_results)
    /\ Val(args.num_results) <= UrlCap
    /\ \A h \in 1..Len(search_response.hits) :
          /\ Len(search_response.hits[h]) = 1
          /\ search_response.hits[h][1] \in { "a1", "a2" }
    /\ \A g, h \in 1..Len(search_response.hits) :
          g # h => search_response.hits[g] # search_response.hits[h]

\* C16 (as claimed): when the search returns k such hits and every URL
\* enriches, the run analyses all k URLs: k signals are scored, the header
\* says k URLs were analysed, and k rows are stored when k scores decode.
C16_AllHitsAnalysed ==
    (/\ PipelineDone
     /\ DistinctAllowListedHits
     /\ env.nimble /\ env.openai
     /\ \A j \in CallsTo("fetch") \cup CallsTo("parse") \cup CallsTo("store") : calls[j].ok)
        => /\ Len(enriched_signals) = Len(search_response.hits)
           /\ \A j \in CallsTo("scorer") : calls[j].pos = Len(search_response.hits)
           /\ IsReport => result[1].analyzed = Len(search_response.hits)
           /\ (IsReport /\ InContract) => Len(db) = Len(search_response.hits)

\* C17 (as claimed): the candidate URLs are exactly the URLs of the search
\* text whose host is on the allow-list, in first-seen order, cut to the
\* first 10; a URL with another host is left out even when its path names
\* an allow-listed domain.
C17_HostOnAllowList ==
    (InPipeline /\ urls # << >> /\ search_response.kind = "ok"
                /\ search_response.hits # << >>) =>
        LET HostAllowListed(u) == u \in { "a1", "a2" }
        IN  urls = PySlice(SelectSeq(search_response.hits[1], HostAllowListed),
                           Some(UrlCap))

\* C18 (as claimed): the candidate URLs hold no URL twice, so that a URL
\* occurring several times in the search text is fetched and stored at most
\* once in a run.
C18_NoDuplicateUrl ==
    InPipeline =>
        /\ \A i, j \in 1..Len(urls) : urls[i] = urls[j] => i = j
        /\ \A j, k \in CallsTo("fetch") : calls[j].url = calls[k].url => j = k
        /\ \A r, q \in 1..Len(db) : db[r].url = db[q].url => r = q

\* C19: the report of a completed run is one header block (count of URLs
\* analysed, count of alerts), then one detail block per enriched signal in
\* enrichment order, then the scoring blocks in their order; its length is
\* 1 + enriched signals + scoring blocks, and the header's alert count is the
\* number of alerts whose delivery succeeded.
C19_ReportLayout ==
    (PipelineDone /\ IsReport) =>
        LET n == Len(enriched_signals)
        IN  /\ Len(result) = 1 + n + Len(scoring_result)
            /\ \A k \in 2..Len(result) : result[k].kind # "header"
            /\ result[1].analyzed = n
            /\ result[1].alerts = Cardinality({ j \in CallsTo("webhook") : calls[j].ok })
            /\ \A i \in 1..n :
                  /\ result[1 + i].kind = "detail"
                  /\ result[1 + i].pos = i
                  /\ result[1 + i].urls = << enriched_signals[i].url >>
            /\ \A k \in 1..Len(scoring_result) : result[1 + n + k] = scoring_result[k]

\* A report on two signals, both above the threshold, one alert delivered
C19_Witness ==
    /\ PipelineDone /\ IsReport
    /\ Len(enriched_signals) = 2
    /\ Len(result) = 6
    /\ Cardinality(CallsTo("webhook")) = 2
    /\ result[1].alerts = 1

\* C20 (as claimed): a run that reaches a stage whose credential is absent
\* (search key, field-parser key, scorer key) returns the missing-credential
\* message of that stage, and does not raise.
C20_MissingKeySurfaced ==
    /\ pc # "raised"
    /\ (PipelineDone /\ args.query # "") =>
          /\ ~env.tavily => result = << MissingKeyBlock("TAVILY_API_KEY") >>
          /\ (~env.nimble /\ enriched_signals # << >>) =>
                result = << MissingKeyBlock("NIMBLE_API_KEY") >>
          /\ (~env.openai /\ enriched_signals # << >>) =>
                result = << MissingKeyBlock("OPENAI_API_KEY") >>

\* Store calls of the concurrent runs that returned True
StoredBy(r) == { runs[r].stored[k] : k \in 1..Len(runs[r].stored) }

\* C21: when several runs interleave on one server, every successful
\* store_signal call has added one complete row with an id of its own, no
\* row of one run or of the initial table is lost or altered by another run,
\* and the row count is the initial count plus the successful store calls.
C21_ConcurrentAppends ==
    /\ \A k \in 1..Len(db) : db[k].id = k
    /\ Len(db) >= Len(initial_rows)
    /\ \A k \in 1..Len(initial_rows) : db[k] = initial_rows[k]
    /\ \A r \in DOMAIN runs : \A e \in StoredBy(r) :
          /\ e.id \in (Len(initial_rows) + 1)..Len(db)
          /\ db[e.id] = [id |-> e.id] @@ SignalData(e.pos, e.url, e.score)
          /\ \A q \in DOMAIN runs : \A f \in StoredBy(q) :
                (f.id = e.id) => (q = r /\ f = e)
    /\ runs # << >> =>
          Len(db) = Len(initial_rows) + Len(runs["r1"].stored) + Len(runs["r2"].stored)

\* Both runs have written, one between two writes of the other, and a store
\* call of one of them failed
C21_Witness ==
    /\ runs # << >>
    /\ initial_rows # << >>
    /\ \A r \in StoreRuns : runs[r].at = "done"
    /\ \E e, g \in StoredBy("r1") : \E f \in StoredBy("r2") : e.id < f.id /\ f.id < g.id
    /\ Len(runs["r2"].stored) < runs["r2"].n

\* Stage of the run a collaborator call belongs to
StageOf(to) ==
    IF to = "search" THEN 1
    ELSE IF to \in { "fetch", "parse" } THEN 2
    ELSE IF to = "scorer" THEN 3
    ELSE 4

\* C22: the collaborator calls of a run occur in stage order and never go
\* back: at most one search call, then the fetch and field-parse calls, then
\* one batch-scoring call carrying all enriched signals, then store and
\* alert calls; the store call of a signal comes right before its alert
\* call, and signals are stored in increasing position order.
C22_StageOrder ==
    InPipeline =>
        /\ \A j, k \in 1..Len(calls) : j < k => StageOf(calls[j].to) <= StageOf(calls[k].to)
        /\ Cardinality(CallsTo("search")) <= 1
        /\ Cardinality(CallsTo("scorer")) <= 1
        /\ (\E j \in 1..Len(calls) : StageOf(calls[j].to) > 1) =>
              Cardinality(CallsTo("search")) = 1
        /\ CallsTo("store") # { } => Cardinality(CallsTo("scorer")) = 1
        /\ \A j \in CallsTo("scorer") :
              /\ calls[j].pos = Len(enriched_signals)
              /\ idx = Len(Todo)
        /\ \A k \in CallsTo("webhook") :
              /\ k > 1
              /\ calls[k - 1].to = "store"
              /\ calls[k - 1].pos = calls[k].pos
        /\ \A j, k \in CallsTo("store") : j < k => calls[j].pos < calls[k].pos

\* A finished run that went through all four stages for two signals
C22_Witness ==
    /\ PipelineDone /\ IsReport
    /\ CallsTo("search") # { }
    /\ Cardinality(CallsTo("fetch")) = 2
    /\ Cardinality(CallsTo("store")) = 2
    /\ \E k \in CallsTo("webhook") : calls[k].pos = 1
    /\ \E k \in CallsTo("webhook") : calls[k].pos = 2

\* Candidates handled so far whose fetch and field parsing both succeeded
Succeeded ==
    { i \in 1..idx : /\ \E j \in CallsAbout("fetch", i) : calls[j].ok
                     /\ \E j \in CallsAbout("parse", i) : calls[j].ok }

\* C23 (as claimed): candidates are enriched one at a time in candidate
\* order, the enriched signals are those of the candidates that succeeded,
\* in order, and a run in which none succeeded returns the 'no signals'
\* message without calling the batch scorer.
C23_EnrichedAreSucceeded ==
    InPipeline =>
        /\ \A j, k \in CallsTo("fetch") \cup CallsTo("parse") :
              j < k => /\ calls[j].pos <= calls[k].pos
                       /\ calls[j].pos = calls[k].pos =>
                             (calls[j].to = "fetch" /\ calls[k].to = "parse")
        /\ Len(enriched_signals) = Cardinality(Succeeded)
        /\ \A k \in 1..Len(enriched_signals) : enriched_signals[k].signal_title \in Succeeded
        /\ \A k, m \in 1..Len(enriched_signals) :
              k < m => enriched_signals[k].signal_title < enriched_signals[m].signal_title
        /\ (PipelineDone /\ urls # << >> /\ ~IsNone(args.num_results) /\ Succeeded = { }) =>
              /\ result = Message("no_signals")
              /\ CallsTo("scorer") = { }

\* Lines of a text that start with "<label>: " followed by a value
PrefixLines(lines, label) ==
    { p \in LabelAt(lines, label) : p[2] = 1 /\ NonEmptyRest(lines, p) }

\* C24 (as claimed): a block is decoded with the values of the lines that
\* start with the label: the likelihood of the first line starting with
\* 'Launch Likelihood: <number>', the rest of the first line starting with
\* 'Confidence: ' and with 'Reasoning: ', the defaults when there is no such
\* line; a label in the middle of a line yields nothing.
C24_LinePrefixOnly ==
    decoded # << >> =>
        LET d == decoded[1]
            likelihood == { p \in PrefixLines(text_block, "Launch Likelihood") :
                              IsNumber(text_block[p[1]][1].value) }
            confidence == PrefixLines(text_block, "Confidence")
            reasoning == PrefixLines(text_block, "Reasoning")
        IN  /\ d.found <=> likelihood # { }
            /\ d.found =>
                  /\ d.score = NumberOf(text_block[FirstPos(likelihood)[1]][1].value)
                  /\ d.confidence = IF confidence = { } THEN Unknown
                                    ELSE RestOfLine(text_block, FirstPos(confidence))
                  /\ d.reasoning = IF reasoning = { } THEN NoReasoning
                                   ELSE RestOfLine(text_block, FirstPos(reasoning))

\* C25 (as claimed): the fields recovered from the composed signal text,
\* stored and listed in the alert are the parser's mapping restricted to the
\* target fields: a present field keeps its value, a field the parser did
\* not return stays absent, is stored empty and is not listed in the alert.
C25_FieldsRoundTrip ==
    recovered # << >> =>
        LET given == parse_input.result
            targets == { parse_input.target_fields[k] :
                           k \in 1..Len(parse_input.target_fields) }
            r == recovered[1]
        IN  /\ DOMAIN r.fields = targets \cap DOMAIN given
            /\ \A f \in DOMAIN r.fields : r.fields[f] = given[f]
            /\ \A f \in FieldNames :
                  r.stored[f] = IF f \in targets \cap DOMAIN given THEN given[f]
                                ELSE EmptyText
            /\ r.alerted \subseteq targets \cap DOMAIN given

\* How far a run has come
StageRank(at) ==
    IF at = "idle" THEN 0
    ELSE IF at = "search" THEN 1
    ELSE IF at = "enrich" THEN 2
    ELSE IF at = "interpret" THEN 3
    ELSE 4

DisqualifyingMessages ==
    { Message(kind) : kind \in { "no_query", "no_search_results", "no_urls",
                                 "no_signals", "failed_to_score" } }

\* C26: provided every collaborator call returns or fails in the end, every
\* run ends, with exactly one of a report, a disqualifying message or an
\* error message; a run never goes back to an earlier stage or loop
\* iteration.
C26_RunEnds ==
    /\ InPipeline ~> PipelineDone
    /\ [](PipelineDone =>
            /\ Cardinality({ k \in { "report", "disqualified", "error" } :
                               \/ k = "report" /\ IsReport
                               \/ k = "disqualified" /\ result \in DisqualifyingMessages
                               \/ k = "error" /\ result = Message("pipeline_failed") }) = 1)
    /\ [][ /\ StageRank(pc') >= StageRank(pc)
           /\ idx' >= idx
           /\ si' >= si
           /\ pc = "done" => result' = result ]_vars

\* A run that ended with a report after a failed fetch, a failed store and
\* a failed alert
C26_Witness ==
    /\ PipelineDone /\ IsReport
    /\ \E j \in CallsTo("fetch") : ~calls[j].ok
    /\ \E j \in CallsTo("store") : ~calls[j].ok
    /\ \E j \in CallsTo("webhook") : ~calls[j].ok
    /\ si = Len(scoring_result)

\* C27: in every run the batch scorer is given between 1 and 10 signals, so
\* neither its size-limit error nor its empty-batch error occurs inside a
\* run, whatever num_results is (above 20, zero or negative included).
C27_BatchWithinLimit ==
    InPipeline =>
        /\ Len(enriched_signals) <= UrlCap
        /\ UrlCap <= MaxBatch
        /\ (pc = "interpret" \/ scoring_result # << >>) => Len(enriched_signals) >= 1
        /\ \A j \in CallsTo("scorer") : calls[j].pos \in 1..UrlCap
        /\ \A k \in 1..Len(scoring_result) :
              scoring_result[k].kind \notin { "size_limit_error", "no_signals_error" }
        /\ \A k \in 1..Len(result) :
              result[k].kind \notin { "size_limit_error", "no_signals_error" }

\* A run with num_results above the batch limit that scored ten signals
C27_Witness ==
    /\ PipelineDone /\ IsReport
    /\ args.num_results = Some(MaxBatch + 1)
    /\ Len(enriched_signals) = UrlCap
    /\ \E j \in CallsTo("scorer") : calls[j].pos = UrlCap

\* C28: run_pipeline called with an empty or missing query returns the 'no
\* search query' message without calling any collaborator and without
\* adding a row.
C28_EmptyQueryNoEffect ==
    (InPipeline /\ args.query = "") =>
        /\ pc = "done"
        /\ result = Message("no_query")
        /\ calls = << >>
        /\ db = << >>
        /\ urls = << >> /\ enriched_signals = << >> /\ scoring_result = << >>

\* Such a call on a server that has every credential
C28_Witness ==
    /\ PipelineDone
    /\ args.query = ""
    /\ result = Message("no_query")
    /\ env.tavily /\ env.nimble /\ env.openai /\ env.slack

\* Lines read so far that are well-formed JSON
JsonLinesRead == { i \in 1..lines_read : stdin[i].json # "invalid" }

\* C29 (as claimed): the loop writes exactly one response for each line of
\* well-formed JSON, in request order and before it reads the next line,
\* with the id as a string ('unknown' without id) and either a result or an
\* error; a line that is not JSON gets no response and does not stop the
\* loop, and the end of input ends it.
C29_OneResponsePerJsonLine ==
    loop \in { "reading", "ended" } =>
        /\ Len(stdout) = Cardinality(JsonLinesRead)
        /\ \A k \in 1..Len(stdout) :
              /\ stdout[k].line \in JsonLinesRead
              /\ \A m \in 1..Len(stdout) : k < m => stdout[k].line < stdout[m].line
              /\ stdout[k].kind \in { "result", "error" }
              /\ stdout[k].id = IF stdin[stdout[k].line].id.type = "none" THEN "unknown"
                                ELSE StrOf(stdin[stdout[k].line].id)
        /\ loop = "ended" => lines_read = Len(stdin)

\* The input line a response answers
AnsweredLine(response) == stdin[response.line]

IsRegisteredCall(req) ==
    req.json = "object" /\ req.method = "tools/call" /\ req.params = "dict"
        /\ req.name \in Tools

IsUnregisteredOrUnknown(req) ==
    /\ req.json = "object"
    /\ \/ req.method = "tools/call" /\ req.params = "dict" /\ req.name \notin Tools
       \/ req.method \notin { "initialize", "tools/list", "tools/call" }

\* C30: a tools/call for a registered tool, and each HTTP endpoint, answers
\* with a result whose isError is false, also when the tool failed: the
\* failure is only an error text in the content. An error with code -32601
\* answers only an unregistered tool name or an unknown method, and no tool
\* handler was executed for that request.
C30_FailuresAreResults ==
    /\ \A k \in 1..Len(stdout) :
          /\ IsRegisteredCall(AnsweredLine(stdout[k])) =>
                /\ stdout[k].kind = "result"
                /\ stdout[k].isError = "false"
                /\ stdout[k].content \in { "ok", "failed", "executing_error" }
                /\ \E e \in 1..Len(executed) : executed[e].line = stdout[k].line
          /\ stdout[k].code = 0 - 32601 =>
                /\ stdout[k].kind = "error"
                /\ IsUnregisteredOrUnknown(AnsweredLine(stdout[k]))
                /\ \A e \in 1..Len(executed) : executed[e].line # stdout[k].line
    /\ \A h \in 1..Len(http) :
          /\ http[h].isError = "false"
          /\ http[h].content \in { "ok", "failed" }

C30_Witness ==
    /\ \E k \in 1..Len(stdout) :
          /\ IsRegisteredCall(AnsweredLine(stdout[k]))
          /\ stdout[k].content \in { "failed", "executing_error" }
          /\ stdout[k].isError = "false"
    /\ \E k \in 1..Len(stdout) :
          /\ stdout[k].code = 0 - 32601
          /\ AnsweredLine(stdout[k]).name = "nope"
    /\ \E h \in 1..Len(http) : http[h].content = "failed" /\ http[h].isError = "false"

====
